---- MODULE Spec2Model ----
(***************************************************************************)
(* CoAct: the two-tier plan / execute / check / replan driver of           *)
(* src/test_plan.py, its early-stop monitor and the string evaluator.      *)
(*                                                                         *)
(* Reading of the source.  execute_local_plan is lines 246-295 of          *)
(* src/test_plan.py and the batch loop is lines 297-360; the names both    *)
(* use (trajectory, state_info, meta_data, global_plan, global_plan_num,   *)
(* phase_num, done, early_stop_flag, stop_info) are one set of task        *)
(* variables, while the arguments and the index of execute_local_plan live *)
(* only during a call.  Indentation inside each of the two blocks is taken *)
(* as written.  Calls whose bodies are not part of the sources (the        *)
(* environment, the language-model backed agent methods, the action        *)
(* helpers) are modelled by their results: a value out of a small set, or  *)
(* an exception that the task boundary catches.                            *)
(***************************************************************************)
EXTENDS Integers, Sequences, FiniteSets, TLC

VARIABLES
    pc,                  \* position of the driver
    task,                \* index of config_file in config_file_list (0 before the first)
    trajectory,          \* Trajectory: list of StateInfo / Action / raw plan entries
    action_history,      \* meta_data["action_history"]
    max_steps,           \* args.max_steps
    thresholds,          \* early_stop_thresholds
    early_stop_flag,     \* first component of early_stop's result
    stop_info,           \* second component of early_stop's result
    plans,               \* heap of global-plan objects: id -> number of phases
    initial_global_plan, \* reference (id) of the plan global_planner.global_plan returned
    global_plan,         \* reference (id) of the active plan
    global_plan_len,     \* len(initial_global_plan)
    global_plan_num,     \* counter of global plans
    phase_num,           \* phase cursor
    cur_phase_task,      \* execute_local_plan's argument: <<plan, index>> of the PhaseTask
    local_plan,          \* execute_local_plan's argument and local: the LocalPlan
    action_num,          \* execute_local_plan's local: index into local_plan
    done,                \* "unbound" | "None" | "True" | "False"
    scores,              \* the scores list
    env_steps,           \* the actions env.step was called with, in this task
    outcome,             \* per task: "scored" | "openai" | "unhandled"
    phase_log,           \* phase cursors for which a local plan was requested, this task
    first_plan_stops,    \* history: the task's first local plan is the single stop entry
    decisions,           \* history: "none", "overrule" (every outcome so far), "mixed"
    call,                \* a text function under study and its arguments
    result,              \* what that call returned or raised
    session              \* the browser context of env: "none" | "open" | "closed"

vars == <<pc, task, trajectory, action_history, max_steps, thresholds,
          early_stop_flag, stop_info, plans, initial_global_plan, global_plan,
          global_plan_len, global_plan_num, phase_num, cur_phase_task,
          local_plan, action_num, done, scores, env_steps, outcome,
          phase_log, first_plan_stops, decisions, call, result, session>>

----------------------------------------------------------------------------
(* Bounds of the model *)

\* most actions in a trajectory handed to early_stop on its own
MaxActs == 3
\* largest max_steps drawn
MaxStepsB == 4
\* largest early-stop threshold drawn
MaxTh == 2
\* number of config files in config_file_list
NTasks == 2
\* most phases in a global plan
MaxPhases == 2
\* most entries in a local plan
MaxPlanLen == 1
\* most global-plan objects created in one task
MaxPlans == 2
\* longest trajectory the loop is followed to
MaxTraj == 4

----------------------------------------------------------------------------
(* Strings.  A string is a sequence of tokens; "A" is an upper-case letter, *)
(* "a" the same letter in lower case, "'" and "\"" the two quote marks.     *)

NumTok(n) == IF n = 0 THEN "0" ELSE IF n = 1 THEN "1" ELSE IF n = 2 THEN "2"
             ELSE IF n = 3 THEN "3" ELSE IF n = 4 THEN "4" ELSE IF n = 5 THEN "5"
             ELSE "6+"

LowerTok(t) == CASE t = "A" -> "a"
                 [] t = "Early stop: " -> "early stop: "
                 [] t = "Reach max steps " -> "reach max steps "
                 [] t = "Failed to parse actions for " -> "failed to parse actions for "
                 [] t = "Same action for " -> "same action for "
                 [] t = "Same typing action for " -> "same typing action for "
                 [] t = "ERROR: " -> "error: "
                 [] t = "Action: " -> "action: "
                 [] t = "Result: " -> "result: "
                 [] t = "Reasons: " -> "reasons: "
                 [] t = "Request Type: " -> "request type: "
                 [] t = "Decision: " -> "decision: "
                 [] t = "Revised Plan: " -> "revised plan: "
                 [] t = "Collation: " -> "collation: "
                 [] OTHER -> t

lower(s) == [i \in 1..Len(s) |-> LowerTok(s[i])]

----------------------------------------------------------------------------
(* Trajectory elements *)

ActionTypes == {"NONE", "CLICK", "TYPE", "STOP"}

\* {"observation": obs, "info": info}
StateInfo(obs) ==
    [kind |-> "state", action_type |-> "-", arg |-> obs, answer |-> <<>>,
     description |-> <<>>]

\* an Action of browser_env: action_type, its parameter, and the answer of a STOP
Action(t, a, ans) ==
    [kind |-> "action", action_type |-> t, arg |-> a, answer |-> ans,
     description |-> <<>>]

\* an element of what parse_local_plan returns:
\* {"Action Number": n, "Action Description": d}, with no "action_type" and no "answer"
PlanEntry(n, d) ==
    [kind |-> "entry", action_type |-> "-", arg |-> n, answer |-> <<>>,
     description |-> d]

create_none_action == Action("NONE", 0, <<>>)

create_stop_action(answer) == Action("STOP", 0, answer)

IsAction(e) == e.kind = "action"

IsState(e) == e.kind = "state"

\* action["action_type"] is a KeyError on a StateInfo and on a raw plan entry
HasActionType(e) == e.kind = "action"

\* browser_env.actions.is_equivalent
is_equivalent(a, b) ==
    /\ a.action_type = b.action_type
    /\ CASE a.action_type = "NONE" -> TRUE
         [] a.action_type = "STOP" -> a.answer = b.answer
         [] OTHER -> a.arg = b.arg

----------------------------------------------------------------------------
(* early_stop, src/test_plan.py 150-203 *)

\* trajectory[1::2]
OddSlice(t) == [i \in 1..(Len(t) \div 2) |-> t[2 * i]]

\* seq[-k:] for k >= 0; seq[-0:] is the whole list
LastK(s, k) == IF k = 0 \/ Len(s) <= k THEN s ELSE SubSeq(s, Len(s) - k + 1, Len(s))

AllSeq(s, P(_)) == \A i \in 1..Len(s) : P(s[i])

CountSeq(s, P(_)) == Cardinality({i \in 1..Len(s) : P(s[i])})

Reason(msg, n) == [msg |-> msg, n |-> n]

NoReason == Reason("", 0)

IsNone(a) == a.action_type = "NONE"

\* a strict comparison in place of >=
ReachMaxSteps_Strict(t, ms) == Len(t) - 1 > 2 * ms

\* num_steps >= max_steps with num_steps = (len(trajectory) - 1) / 2, a true division
ReachMaxSteps(t, ms) == Len(t) - 1 >= 2 * ms

\* len(last_k_actions) > k in place of >=
ParsingFailure_StrictLen(t, th) ==
    LET k == th.parsing_failure
        last_k_actions == LastK(OddSlice(t), k)
    IN  Len(last_k_actions) > k /\ AllSeq(last_k_actions, IsNone)

\* any(...) in place of all(...)
ParsingFailure_Any(t, th) ==
    LET k == th.parsing_failure
        last_k_actions == LastK(OddSlice(t), k)
    IN  Len(last_k_actions) >= k /\ \E i \in 1..Len(last_k_actions) : IsNone(last_k_actions[i])

ParsingFailure(t, th) ==
    LET k == th.parsing_failure
        last_k_actions == LastK(OddSlice(t), k)
    IN  Len(last_k_actions) >= k /\ AllSeq(last_k_actions, IsNone)

\* the whole action_seq compared in place of last_k_actions
SameAction_WholeHistory(t, th) ==
    LET k == th.repeating_action
        action_seq == OddSlice(t)
        last_action == action_seq[Len(action_seq)]
        EqLast(a) == is_equivalent(a, last_action)
    IN  /\ Len(action_seq) # 0
        /\ last_action.action_type # "TYPE"
        /\ Len(action_seq) >= k
        /\ AllSeq(action_seq, EqLast)

\* the comparison made without the test len(last_k_actions) >= k
SameAction_NoLengthTest(t, th) ==
    LET k == th.repeating_action
        action_seq == OddSlice(t)
        last_k_actions == LastK(action_seq, k)
        last_action == action_seq[Len(action_seq)]
        EqLast(a) == is_equivalent(a, last_action)
    IN  /\ Len(action_seq) # 0
        /\ last_action.action_type # "TYPE"
        /\ AllSeq(last_k_actions, EqLast)

SameAction(t, th) ==
    LET k == th.repeating_action
        action_seq == OddSlice(t)
        last_k_actions == LastK(action_seq, k)
        last_action == action_seq[Len(action_seq)]
        EqLast(a) == is_equivalent(a, last_action)
    IN  /\ Len(action_seq) # 0
        /\ last_action.action_type # "TYPE"
        /\ Len(last_k_actions) >= k
        /\ AllSeq(last_k_actions, EqLast)

\* the count taken over last_k_actions in place of action_seq
SameTyping_LastK(t, th) ==
    LET k == th.repeating_action
        action_seq == OddSlice(t)
        last_action == action_seq[Len(action_seq)]
        EqLast(a) == is_equivalent(a, last_action)
    IN  /\ Len(action_seq) # 0
        /\ last_action.action_type = "TYPE"
        /\ CountSeq(LastK(action_seq, k), EqLast) >= k

SameTyping(t, th) ==
    LET k == th.repeating_action
        action_seq == OddSlice(t)
        last_action == action_seq[Len(action_seq)]
        EqLast(a) == is_equivalent(a, last_action)
    IN  /\ Len(action_seq) # 0
        /\ last_action.action_type = "TYPE"
        /\ CountSeq(action_seq, EqLast) >= k

\* the rules with the repetition tests ahead of the parse-failure test
early_stop_RepetitionFirst(t, ms, th) ==
    IF ReachMaxSteps(t, ms) THEN <<TRUE, Reason("Reach max steps ", ms)>>
    ELSE IF SameAction(t, th)
         THEN <<TRUE, Reason("Same action for ", th.repeating_action)>>
    ELSE IF SameTyping(t, th)
         THEN <<TRUE, Reason("Same typing action for ", th.repeating_action)>>
    ELSE IF ParsingFailure(t, th)
         THEN <<TRUE, Reason("Failed to parse actions for ", th.parsing_failure)>>
    ELSE <<FALSE, NoReason>>

early_stop(t, ms, th) ==
    IF ReachMaxSteps(t, ms) THEN <<TRUE, Reason("Reach max steps ", ms)>>
    ELSE IF ParsingFailure(t, th)
         THEN <<TRUE, Reason("Failed to parse actions for ", th.parsing_failure)>>
    ELSE IF SameAction(t, th)
         THEN <<TRUE, Reason("Same action for ", th.repeating_action)>>
    ELSE IF SameTyping(t, th)
         THEN <<TRUE, Reason("Same typing action for ", th.repeating_action)>>
    ELSE <<FALSE, NoReason>>

\* the elements early_stop reads ["action_type"] of, in the order it reads them,
\* contain one that has no such key: the call raises KeyError
early_stop_raises(t, ms, th) ==
    LET action_seq == OddSlice(t)
        pf == LastK(action_seq, th.parsing_failure)
        rp == LastK(action_seq, th.repeating_action)
        last_action == action_seq[Len(action_seq)]
    IN  /\ ~ReachMaxSteps(t, ms)
        /\ \/ Len(pf) >= th.parsing_failure /\ ~AllSeq(pf, HasActionType)
           \/ /\ ~ParsingFailure(t, th)
              /\ Len(action_seq) # 0
              /\ \/ ~HasActionType(last_action)
                 \/ /\ last_action.action_type # "TYPE"
                    /\ Len(rp) >= th.repeating_action
                    /\ ~AllSeq(rp, HasActionType)
                 \/ /\ last_action.action_type = "TYPE"
                    /\ ~AllSeq(action_seq, HasActionType)

----------------------------------------------------------------------------
(* Task configuration and the evaluator, src/evaluation_harness/evaluators.py *)

\* the JSON record of config_files/<i>.json: a string_match task with an
\* exact_match reference answer
Config(i) ==
    [task_id |-> i,
     eval_types |-> <<"string_match">>,
     exact_match |-> IF i % 2 = 1 THEN <<"a">> ELSE <<"'", "A", "'">>]

\* StringEvaluator.clean_answer
clean_answer(answer) ==
    LET n == Len(answer)
        stripped == IF n >= 1 /\ answer[1] = "'" /\ answer[n] = "'"
                        THEN SubSeq(answer, 2, n - 1)
                    ELSE IF n >= 1 /\ answer[1] = "\"" /\ answer[n] = "\""
                        THEN SubSeq(answer, 2, n - 1)
                    ELSE answer
    IN  lower(stripped)

\* StringEvaluator.exact_match
exact_match(ref, pred) == IF clean_answer(pred) = clean_answer(ref) THEN 1 ELSE 0

\* Evaluator.get_last_action
get_last_action(t) == t[Len(t)]

\* last_action["answer"] is a KeyError unless the last element is an Action
StringEvaluatorRaises(t) == ~IsAction(get_last_action(t))

\* StringEvaluator.__call__ for a config whose reference_answers is {exact_match: ref}
StringEvaluator(t, cfg) ==
    LET pred == clean_answer(get_last_action(t).answer)
    IN  1 * exact_match(cfg.exact_match, pred)

----------------------------------------------------------------------------
(* The driver, src/test_plan.py 206-360 *)

\* texts a local plan entry can hold: an ordinary action and a stop that carries
\* the reference answer
Descriptions == {<<"click [1]">>, <<"stop [a]">>}

\* what local_agent.local_plan and revise_local_plan can return: ordinary entries,
\* the last entry possibly a stop
LocalPlans ==
    {[i \in 1..m |-> PlanEntry(i, IF i < m THEN <<"click [1]">> ELSE d)] :
        m \in 0..MaxPlanLen, d \in Descriptions}

\* the local plan that is one stop entry carrying the reference answer
StopPlan == <<PlanEntry(1, <<"stop [a]">>)>>

\* a reference to the n-th global-plan object created in task t
PlanRef(t, n) == [task |-> t, n |-> n]

NoPlan == PlanRef(0, 0)

Thresholds == [parsing_failure : 0..MaxTh, repeating_action : 0..MaxTh]

\* no call of execute_local_plan is running: its arguments and locals do not exist
NoFrame(lp, an, cpt) == lp = <<>> /\ an = 0 /\ cpt = <<NoPlan, 0>>

\* what the variables of the task loop hold before the first task
\* no text function is under study
NoCall == [fn |-> "none"]
NoResult == [exc |-> "none", value |-> <<>>]

IdleLoop ==
    /\ task = 0
    /\ action_history = <<>>
    /\ plans = <<>>
    /\ initial_global_plan = NoPlan
    /\ global_plan = NoPlan
    /\ global_plan_len = 0
    /\ global_plan_num = 0
    /\ phase_num = 0
    /\ NoFrame(local_plan, action_num, cur_phase_task)
    /\ done = "unbound"
    /\ scores = <<>>
    /\ env_steps = <<>>
    /\ outcome = <<>>
    /\ phase_log = <<>>
    /\ first_plan_stops = FALSE
    /\ decisions = "none"
    /\ call = NoCall
    /\ result = NoResult
    /\ session = "none"

\* the arguments the batch is run with: a max_steps the trajectory reaches and one
\* it does not, a parsing_failure threshold of 0 and one of MaxTh
LoopArgs ==
    {<<1, [parsing_failure |-> MaxTh, repeating_action |-> MaxTh]>>,
     <<MaxStepsB, [parsing_failure |-> 0, repeating_action |-> MaxTh]>>,
     <<MaxStepsB, [parsing_failure |-> MaxTh, repeating_action |-> MaxTh]>>}

Init ==
    /\ pc = "batch"
    /\ trajectory = <<>>
    /\ \E args \in LoopArgs : max_steps = args[1] /\ thresholds = args[2]
    /\ early_stop_flag = FALSE
    /\ stop_info = NoReason
    /\ IdleLoop

\* an except clause for provider errors only: any other exception leaves test_plan
Raise_ProviderOnly(kind) ==
    /\ outcome' = Append(outcome, kind)
    /\ pc' = IF kind = "openai" THEN "next" ELSE "crashed"

\* an exception that no except clause catches: it leaves test_plan
Raise_Uncaught(kind) ==
    /\ outcome' = Append(outcome, kind)
    /\ pc' = "crashed"

\* an exception reaches the except clauses of lines 348-356: it is logged, no
\* score is appended, and the for loop goes on
Raise(kind) ==
    /\ outcome' = Append(outcome, kind)
    /\ pc' = "next"

\* the alignment outcomes of the task so far, after outcome d
Decide(d) ==
    IF d = "overrule" /\ decisions \in {"none", "overrule"} THEN "overrule" ELSE "mixed"

\* the running call of execute_local_plan ends, by return, break or exception
LeaveFrame == NoFrame(local_plan', action_num', cur_phase_task')

\* BeginTask without line 319: the phase cursor is left where it was
BeginTask_KeepsCursor ==
    /\ pc \in {"batch", "next"}
    /\ task < NTasks
    /\ task' = task + 1
    /\ trajectory' = <<StateInfo(0)>>
    /\ action_history' = <<"None">>
    /\ env_steps' = <<>>
    /\ phase_log' = <<>>
    /\ first_plan_stops' = FALSE
    /\ decisions' = "none"
    /\ session' = "open"
    /\ \/ \E n \in 0..MaxPhases :
            /\ plans' = <<n>>
            /\ initial_global_plan' = PlanRef(task + 1, 1)
            /\ global_plan_len' = n
            /\ global_plan_num' = 1
            /\ global_plan' = PlanRef(task + 1, 1)
            /\ phase_num' = phase_num
            /\ pc' = "phase"
            /\ UNCHANGED outcome
       \/ \E kind \in {"openai", "unhandled"} :
            /\ Raise(kind)
            /\ UNCHANGED <<plans, initial_global_plan, global_plan_len,
                           global_plan_num, global_plan, phase_num>>
    /\ UNCHANGED <<call, result, max_steps, thresholds, early_stop_flag, stop_info,
                   cur_phase_task, local_plan, action_num, done, scores>>

\* BeginTask taking the config file it took last, when there is one
BeginTask_SameTask ==
    /\ pc \in {"batch", "next"}
    /\ task < NTasks
    /\ task' = IF task = 0 THEN 1 ELSE task
    /\ trajectory' = <<StateInfo(0)>>
    /\ action_history' = <<"None">>
    /\ env_steps' = <<>>
    /\ phase_log' = <<>>
    /\ first_plan_stops' = FALSE
    /\ decisions' = "none"
    /\ session' = "open"
    /\ \/ \E n \in 0..MaxPhases :
            /\ plans' = <<n>>
            /\ initial_global_plan' = PlanRef(task + 1, 1)
            /\ global_plan_len' = n
            /\ global_plan_num' = 1
            /\ global_plan' = PlanRef(task + 1, 1)
            /\ phase_num' = 0
            /\ pc' = "phase"
            /\ UNCHANGED outcome
       \/ \E kind \in {"openai", "unhandled"} :
            /\ Raise(kind)
            /\ UNCHANGED <<plans, initial_global_plan, global_plan_len,
                           global_plan_num, global_plan, phase_num>>
    /\ UNCHANGED <<call, result, max_steps, thresholds, early_stop_flag, stop_info,
                   cur_phase_task, local_plan, action_num, done, scores>>

\* lines 297-319: the next config file, env.reset, the global plan
BeginTask ==
    /\ pc \in {"batch", "next"}
    /\ task < NTasks
    /\ task' = task + 1
    /\ trajectory' = <<StateInfo(0)>>
    /\ action_history' = <<"None">>
    /\ env_steps' = <<>>
    /\ phase_log' = <<>>
    /\ first_plan_stops' = FALSE
    /\ decisions' = "none"
    /\ session' = "open"
    /\ \/ \E n \in 0..MaxPhases :
            /\ plans' = <<n>>
            /\ initial_global_plan' = PlanRef(task + 1, 1)
            /\ global_plan_len' = n
            /\ global_plan_num' = 1
            /\ global_plan' = PlanRef(task + 1, 1)
            /\ phase_num' = 0
            /\ pc' = "phase"
            /\ UNCHANGED outcome
       \/ \E kind \in {"openai", "unhandled"} :
            /\ Raise(kind)
            /\ UNCHANGED <<plans, initial_global_plan, global_plan_len,
                           global_plan_num, global_plan, phase_num>>
    /\ UNCHANGED <<call, result, max_steps, thresholds, early_stop_flag, stop_info,
                   cur_phase_task, local_plan, action_num, done, scores>>

\* len() of the list initial_global_plan refers to
InitialPlanLen == plans[initial_global_plan.n]

\* lines 322-325: the phase task, the local plan, early_stop, and the call
PhaseStart ==
    /\ pc = "phase"
    /\ phase_num < InitialPlanLen
    /\ ~early_stop_raises(trajectory, max_steps, thresholds)
    /\ \E lp \in LocalPlans :
            /\ local_plan' = lp
            /\ first_plan_stops' = IF phase_log = <<>> THEN lp = StopPlan ELSE first_plan_stops
    /\ cur_phase_task' = <<initial_global_plan, phase_num>>
    /\ early_stop_flag' = early_stop(trajectory, max_steps, thresholds)[1]
    /\ stop_info' = early_stop(trajectory, max_steps, thresholds)[2]
    /\ phase_log' = Append(phase_log, phase_num)
    /\ action_num' = 0
    /\ pc' = "exec"
    /\ UNCHANGED <<call, result, session, task, trajectory, action_history, max_steps, thresholds, plans,
                   initial_global_plan, global_plan, global_plan_len,
                   global_plan_num, phase_num, done, scores, env_steps, outcome,
                   decisions>>

\* lines 322-323: local_agent.local_plan raises (the prompt constructor rejects the
\* prompt kind, the language model fails)
PhaseStartRaise ==
    /\ pc = "phase"
    /\ phase_num < InitialPlanLen
    /\ phase_log' = Append(phase_log, phase_num)
    /\ \E kind \in {"openai", "unhandled"} : Raise(kind)
    /\ UNCHANGED <<call, result, session, task, trajectory, action_history, max_steps, thresholds,
                   early_stop_flag, stop_info, plans, initial_global_plan,
                   global_plan, global_plan_len, global_plan_num, phase_num,
                   cur_phase_task, local_plan, action_num, done, scores, env_steps,
                   first_plan_stops, decisions>>

\* line 322 on an empty plan: IndexError
PhaseStartIndexError ==
    /\ pc = "phase"
    /\ phase_num >= InitialPlanLen
    /\ Raise("unhandled")
    /\ UNCHANGED <<call, result, session, task, trajectory, action_history, max_steps, thresholds,
                   early_stop_flag, stop_info, plans, initial_global_plan,
                   global_plan, global_plan_len, global_plan_num, phase_num,
                   cur_phase_task, local_plan, action_num, done, scores, env_steps,
                   phase_log, first_plan_stops, decisions>>

\* lines 322-323, then line 324 on a trajectory whose inspected elements are not
\* Actions: KeyError
PhaseStartKeyError ==
    /\ pc = "phase"
    /\ phase_num < InitialPlanLen
    /\ early_stop_raises(trajectory, max_steps, thresholds)
    /\ \E lp \in LocalPlans :
            first_plan_stops' = IF phase_log = <<>> THEN lp = StopPlan ELSE first_plan_stops
    /\ phase_log' = Append(phase_log, phase_num)
    /\ Raise("unhandled")
    /\ UNCHANGED <<call, result, session, task, trajectory, action_history, max_steps, thresholds,
                   early_stop_flag, stop_info, plans, initial_global_plan,
                   global_plan, global_plan_len, global_plan_num, phase_num,
                   cur_phase_task, local_plan, action_num, done, scores, env_steps,
                   decisions>>

----------------------------------------------------------------------------
(* execute_local_plan, src/test_plan.py 246-295: one iteration of its loop *)

\* lines 249-258: the action of this iteration
NextAction ==
    IF early_stop_flag
        THEN create_stop_action(<<"Early stop: ", stop_info.msg, NumTok(stop_info.n)>>)
    ELSE IF action_num < Len(local_plan)
        THEN local_plan[action_num + 1]
    ELSE create_stop_action(<<"ERROR: ", "list index out of range">>)

NextActionNum == IF early_stop_flag THEN action_num ELSE action_num + 1

\* get_action_description
ActionStr(a) == IF IsAction(a) THEN "stop" ELSE "entry"

\* lines 232-244, process_action: the action goes on the trajectory and its
\* description on the action history
process_action(a) ==
    /\ trajectory' = Append(trajectory, a)
    /\ action_history' = Append(action_history, ActionStr(a))

\* line 261 is_aligned, line 263 not taken: nothing follows in the loop body
ExecAligned ==
    /\ pc = "exec"
    /\ Len(trajectory) + 1 <= MaxTraj
    /\ process_action(NextAction)
    /\ action_num' = NextActionNum
    /\ decisions' = Decide("aligned")
    /\ pc' = "exec"
    /\ UNCHANGED <<call, result, session, task, max_steps, thresholds, early_stop_flag, stop_info, plans,
                   initial_global_plan, global_plan, global_plan_len,
                   global_plan_num, phase_num, cur_phase_task, local_plan, done,
                   scores, env_steps, outcome, phase_log, first_plan_stops>>

\* lines 264-266 and 295: a non-empty revised plan is bound to local_plan, then
\* `return done` leaves the function
ExecRevised ==
    /\ pc = "exec"
    /\ Len(trajectory) + 1 <= MaxTraj
    /\ process_action(NextAction)
    /\ \E revised_local_plan \in LocalPlans \ {<<>>} : TRUE
    /\ decisions' = Decide("revised")
    /\ IF done = "unbound"
          THEN Raise("unhandled")
          ELSE pc' = "ret" /\ UNCHANGED outcome
    /\ LeaveFrame
    /\ UNCHANGED <<call, result, session, task, max_steps, thresholds, early_stop_flag, stop_info, plans,
                   initial_global_plan, global_plan, global_plan_len,
                   global_plan_num, phase_num, done, scores,
                   env_steps, phase_log, first_plan_stops>>

\* global_planner.revise_global_plan: a plan the heap did not hold before
NewPlan == PlanRef(task, Len(plans) + 1)

\* the replan branch with line 275 left out
ExecReplan_KeepsCursor ==
    /\ pc = "exec"
    /\ Len(trajectory) + 1 <= MaxTraj
    /\ Len(plans) < MaxPlans
    /\ process_action(NextAction)
    /\ \E n \in 1..MaxPhases : plans' = Append(plans, n)
    /\ global_plan' = NewPlan
    /\ global_plan_num' = global_plan_num + 1
    /\ done' = "None"
    /\ decisions' = Decide("replan")
    /\ pc' = "ret"
    /\ LeaveFrame
    /\ UNCHANGED <<call, result, session, task, max_steps, thresholds, early_stop_flag, stop_info,
                   initial_global_plan, global_plan_len, phase_num,
                   scores, env_steps, outcome, phase_log, first_plan_stops>>

\* the replan branch without its break: the loop goes on under the new plan
ExecReplan_NoBreak ==
    /\ pc = "exec"
    /\ Len(trajectory) + 1 <= MaxTraj
    /\ Len(plans) < MaxPlans
    /\ process_action(NextAction)
    /\ \E n \in 1..MaxPhases : plans' = Append(plans, n)
    /\ global_plan' = NewPlan
    /\ global_plan_num' = global_plan_num + 1
    /\ phase_num' = 0
    /\ done' = "None"
    /\ decisions' = Decide("replan")
    /\ pc' = "exec"
    /\ action_num' = NextActionNum
    /\ UNCHANGED <<local_plan, cur_phase_task>>
    /\ UNCHANGED <<call, result, session, task, max_steps, thresholds, early_stop_flag, stop_info,
                   initial_global_plan, global_plan_len,
                   scores, env_steps, outcome, phase_log, first_plan_stops>>

\* lines 268-276: the decision is "replan"; the break leaves the function, which
\* returns None
ExecReplan ==
    /\ pc = "exec"
    /\ Len(trajectory) + 1 <= MaxTraj
    /\ Len(plans) < MaxPlans
    /\ process_action(NextAction)
    /\ \E n \in 1..MaxPhases : plans' = Append(plans, n)
    /\ global_plan' = NewPlan
    /\ global_plan_num' = global_plan_num + 1
    /\ phase_num' = 0
    /\ done' = "None"
    /\ decisions' = Decide("replan")
    /\ pc' = "ret"
    /\ LeaveFrame
    /\ UNCHANGED <<call, result, session, task, max_steps, thresholds, early_stop_flag, stop_info,
                   initial_global_plan, global_plan_len,
                   scores, env_steps, outcome, phase_log, first_plan_stops>>

\* the overrule branch resetting the phase cursor as the replan branch does
ExecStep_ResetsCursor ==
    /\ pc = "exec"
    /\ Len(trajectory) + 2 <= MaxTraj
    /\ action_history' = Append(action_history, ActionStr(NextAction))
    /\ \E replan_decision \in {"overrule", "other"} :
          decisions' = Decide(replan_decision)
    /\ env_steps' = Append(env_steps, NextAction)
    /\ trajectory' = trajectory \o <<NextAction, StateInfo(Len(env_steps) + 1)>>
    /\ \E env_done \in BOOLEAN :
          IF env_done
             THEN done' = "None" /\ pc' = "ret" /\ UNCHANGED outcome
          ELSE IF ~HasActionType(NextAction)
             THEN done' = "False" /\ Raise("unhandled")
          ELSE IF NextAction.action_type = "STOP"
             THEN done' = "None" /\ pc' = "ret" /\ UNCHANGED outcome
          ELSE done' = "False" /\ pc' = "ret" /\ UNCHANGED outcome
    /\ LeaveFrame
    /\ phase_num' = 0
    /\ UNCHANGED <<call, result, session, task, max_steps, thresholds, early_stop_flag, stop_info, plans,
                   initial_global_plan, global_plan, global_plan_len,
                   global_plan_num, scores, phase_log,
                   first_plan_stops>>

\* lines 268-269, 277-295: the decision is "overrule" (local_plan is rebound to a
\* plan revised from the guidance) or neither label; env.step, the new state, and
\* the exits, each of which leaves the function
ExecStep ==
    /\ pc = "exec"
    /\ Len(trajectory) + 2 <= MaxTraj
    /\ action_history' = Append(action_history, ActionStr(NextAction))
    /\ \E replan_decision \in {"overrule", "other"} :
          decisions' = Decide(replan_decision)
    /\ env_steps' = Append(env_steps, NextAction)
    /\ trajectory' = trajectory \o <<NextAction, StateInfo(Len(env_steps) + 1)>>
    /\ \E env_done \in BOOLEAN :
          IF env_done
             THEN done' = "None" /\ pc' = "ret" /\ UNCHANGED outcome
          ELSE IF ~HasActionType(NextAction)
             THEN done' = "False" /\ Raise("unhandled")
          ELSE IF NextAction.action_type = "STOP"
             THEN done' = "None" /\ pc' = "ret" /\ UNCHANGED outcome
          ELSE done' = "False" /\ pc' = "ret" /\ UNCHANGED outcome
    /\ LeaveFrame
    /\ UNCHANGED <<call, result, session, task, max_steps, thresholds, early_stop_flag, stop_info, plans,
                   initial_global_plan, global_plan, global_plan_len,
                   global_plan_num, phase_num, scores, phase_log,
                   first_plan_stops>>

\* a call of the iteration raises (the language model, the environment, a
\* helper), before or after process_action has appended the action
ExecRaise ==
    /\ pc = "exec"
    /\ \E appended \in BOOLEAN :
          IF appended
             THEN process_action(NextAction)
             ELSE UNCHANGED <<trajectory, action_history>>
    /\ \E kind \in {"openai", "unhandled"} : Raise(kind)
    /\ LeaveFrame
    /\ UNCHANGED <<call, result, session, task, max_steps, thresholds, early_stop_flag, stop_info, plans,
                   initial_global_plan, global_plan, global_plan_len,
                   global_plan_num, phase_num, done,
                   scores, env_steps, phase_log, first_plan_stops, decisions>>

\* lines 325-330: done = <what the call returned>, then the phase cursor
DriverAfterPhase ==
    /\ pc = "ret"
    /\ IF done = "True"
          THEN pc' = "score" /\ UNCHANGED phase_num
          ELSE /\ phase_num' = phase_num + 1
               /\ pc' = IF phase_num + 1 >= global_plan_len THEN "score" ELSE "phase"
    /\ UNCHANGED <<call, result, session, task, trajectory, action_history, max_steps, thresholds,
                   early_stop_flag, stop_info, plans, initial_global_plan,
                   global_plan, global_plan_len, global_plan_num, cur_phase_task,
                   local_plan, action_num, done, scores, env_steps, outcome,
                   phase_log, first_plan_stops, decisions>>

\* lines 332-339: the evaluator on the trajectory, the score appended; the call
\* raises when the last element has no answer, and can raise on its way to
\* StringEvaluator (evaluator_router, EvaluatorComb, the page and client arguments)
Score ==
    /\ pc = "score"
    /\ \E raises \in BOOLEAN :
          IF raises \/ StringEvaluatorRaises(trajectory)
             THEN /\ \E kind \in {"openai", "unhandled"} :
                        Raise(IF StringEvaluatorRaises(trajectory) THEN "unhandled" ELSE kind)
                  /\ UNCHANGED scores
             ELSE /\ scores' = Append(scores, StringEvaluator(trajectory, Config(task)))
                  /\ outcome' = Append(outcome, "scored")
                  /\ pc' = "next"
    /\ UNCHANGED <<call, result, session, task, trajectory, action_history, max_steps, thresholds,
                   early_stop_flag, stop_info, plans, initial_global_plan,
                   global_plan, global_plan_len, global_plan_num, phase_num,
                   cur_phase_task, local_plan, action_num, done, env_steps,
                   phase_log, first_plan_stops, decisions>>

\* lines 358-360: after the last config file, the average of the scores
EndBatch ==
    /\ pc \in {"batch", "next"}
    /\ task = NTasks
    /\ pc' = IF scores = <<>> THEN "crashed" ELSE "finished"
    /\ session' = "closed"
    /\ UNCHANGED <<call, result, task, trajectory, action_history, max_steps, thresholds,
                   early_stop_flag, stop_info, plans, initial_global_plan,
                   global_plan, global_plan_len, global_plan_num, phase_num,
                   cur_phase_task, local_plan, action_num, done, scores, env_steps,
                   outcome, phase_log, first_plan_stops, decisions>>

Next ==
    \/ BeginTask
    \/ PhaseStart
    \/ PhaseStartRaise
    \/ PhaseStartIndexError
    \/ PhaseStartKeyError
    \/ ExecAligned
    \/ ExecRevised
    \/ ExecReplan
    \/ ExecStep
    \/ ExecRaise
    \/ DriverAfterPhase
    \/ Score
    \/ EndBatch

Spec == Init /\ [][Next]_vars

----------------------------------------------------------------------------
(* Claims about the task loop, checked under Spec *)

\* the task loop is between env.reset and the evaluator, no iteration interrupted
InTaskLoop == pc \in {"phase", "exec", "ret", "score"}

\* an iteration of execute_local_plan's loop that ran to its end
IterationDone == pc = "exec" /\ pc' \in {"exec", "ret"}

\* C1: in the task loop, after env.reset and after every completed iteration of
\* execute_local_plan, the trajectory has odd length, starts with a state, holds a
\* state at every even (0-based) index and an action at every odd one.
C1_TrajectoryParity ==
    InTaskLoop =>
        /\ Len(trajectory) % 2 = 1
        /\ \A i \in 1..Len(trajectory) :
              IF i % 2 = 1 THEN IsState(trajectory[i]) ELSE ~IsState(trajectory[i])

\* C2: every action the loop takes is appended, then stepped by env.step, and the
\* state that step returned is appended right after it, whatever the alignment
\* outcome of the action.
C2_ActionStepState ==
    [][IterationDone =>
          /\ env_steps' = Append(env_steps, NextAction)
          /\ Len(trajectory') = Len(trajectory) + 2
          /\ trajectory'[Len(trajectory) + 1] = NextAction
          /\ IsState(trajectory'[Len(trajectory) + 2])]_vars

\* the STOP the step-count rule synthesizes
StepCountStop ==
    create_stop_action(<<"Early stop: ", "Reach max steps ", NumTok(max_steps)>>)

\* C3: a task (run with a positive parsing_failure threshold) in which every action
\* was judged misaligned and every arbitration was "overrule" leaves its phase loop
\* only because the step-count rule fired: the trajectory then holds the
\* "Early stop: Reach max steps N" STOP.
C3_OverruleEndsByStepCount ==
    (pc = "score" /\ decisions = "overrule" /\ thresholds.parsing_failure >= 1) =>
        \E i \in 1..Len(trajectory) : trajectory[i] = StepCountStop

\* the iteration that took the "replan" branch
ReplanStep == pc = "exec" /\ global_plan_num' = global_plan_num + 1

C5_StopPlanEndsTask ==
    (first_plan_stops /\ global_plan_len = 2 /\ decisions \in {"none", "overrule"}) =>
        /\ \A i \in 1..Len(phase_log) : phase_log[i] = 0
        /\ (pc = "next" /\ outcome[Len(outcome)] = "scored") => scores[Len(scores)] = 1

\* a STOP synthesized from the early-stop reason (line 250)
IsEarlyStop(e) ==
    IsAction(e) /\ e.action_type = "STOP" /\ Len(e.answer) >= 1 /\ e.answer[1] = "Early stop: "

\* C11: once the early-stop monitor has fired (thresholds positive), the STOP
\* synthesized from its reason ends the phase and the task: while the task is still
\* in its loop, that STOP is the last action of the trajectory and the driver is
\* past the call, on its way to the evaluator, never in or before another
\* iteration.
C11_EarlyStopEndsTask ==
    (InTaskLoop /\ thresholds.parsing_failure >= 1) =>
        \A i \in 1..Len(trajectory) :
            IsEarlyStop(trajectory[i]) =>
                /\ pc \in {"ret", "score"}
                /\ \A j \in (i + 1)..Len(trajectory) : IsState(trajectory[j])

\* the iteration finds action_num out of range of local_plan (lines 253-257)
IndexOutOfRange == pc = "exec" /\ ~early_stop_flag /\ action_num >= Len(local_plan)

\* C12: an iteration that finds the index out of range appends the STOP carrying the
\* index-error message and, unless an exception abandons the task, is the last
\* iteration of the phase loop: execute_local_plan returns.
C12_IndexErrorStopEndsPhase ==
    [][(IndexOutOfRange /\ pc' # "next") =>
          /\ trajectory'[Len(trajectory) + 1] =
                create_stop_action(<<"ERROR: ", "list index out of range">>)
          /\ pc' = "ret"]_vars

\* C13: the iteration whose outcome is "revise" stays in the loop of
\* execute_local_plan with a revised plan as its local plan and the index back at
\* 0, so that the next action taken is entry 0 of the revised plan; the phase cursor
\* and the global plan are unchanged.
C13_ReviseRestartsPlan ==
    [][ExecRevised =>
          /\ pc' = "exec"
          /\ local_plan' \in LocalPlans \ {<<>>}
          /\ action_num' = 0
          /\ phase_num' = phase_num
          /\ global_plan' = global_plan]_vars

\* the iteration that took the "overrule" branch and stepped the environment
OverruleStep ==
    pc = "exec" /\ env_steps' = Append(env_steps, NextAction)
                /\ decisions' = Decide("overrule")

C18_EmptyPlanEndsScored ==
    (/\ pc = "next"
     /\ task >= 1
     /\ initial_global_plan = PlanRef(task, 1)
     /\ InitialPlanLen = 0) =>
        outcome[Len(outcome)] = "scored"

\* a provider error was logged by the step
ProviderErrorStep == outcome' = Append(outcome, "openai")

\* the tasks, among those begun, that ended with a score
ScoredTasks == {i \in 1..Len(outcome) : outcome[i] = "scored"}

\* C20: a step on which a provider error is raised is logged as one, appends no
\* score and leaves the driver between tasks, the error being the outcome of the
\* task that was running; the scores are those of the tasks that ended scored;
\* and between tasks, with config files left, the next task can begin
C20_ProviderErrorSkipsTask ==
    /\ [](/\ Len(scores) = Cardinality(ScoredTasks)
          /\ (pc = "next" /\ task < NTasks) => ENABLED BeginTask)
    /\ [][ProviderErrorStep =>
             /\ pc' = "next"
             /\ scores' = scores
             /\ Len(outcome') = task']_vars

\* the first task met a provider error, the second task has begun on a fresh
\* trajectory, and no score is recorded
C20_Witness ==
    /\ task = 2
    /\ pc = "phase"
    /\ outcome = <<"openai">>
    /\ scores = <<>>
    /\ Len(trajectory) = 1

\* an exception other than a provider error was logged by the step
UnhandledErrorStep == outcome' = Append(outcome, "unhandled")

C22_BatchReportsAverage == pc # "crashed"

\* C23: when a task after the first begins, the browser context of the task
\* before it has been closed
C23_SessionClosedBetweenTasks ==
    [][(task >= 1 /\ task' = task + 1) => session = "closed"]_vars

\* a task has its global plan and has not yet asked for a local plan
TaskStart == pc = "phase" /\ phase_log = <<>>

\* C24: at the start of every task the trajectory is the initial state alone,
\* the action history is "None" alone, the phase cursor is 0, the plan counter
\* is 1 and the global plan is the one made for this task; and the early-stop
\* flag a phase runs under is computed, at the start of that phase, from the
\* trajectory as it then stands
C24_TaskStartsFresh ==
    /\ [](TaskStart =>
            /\ trajectory = <<StateInfo(0)>>
            /\ action_history = <<"None">>
            /\ phase_num = 0
            /\ global_plan_num = 1
            /\ plans = <<global_plan_len>>
            /\ initial_global_plan = PlanRef(task, 1)
            /\ global_plan = PlanRef(task, 1))
    /\ [][(pc = "phase" /\ pc' = "exec") =>
             /\ early_stop_flag' = early_stop(trajectory, max_steps, thresholds)[1]
             /\ stop_info' = early_stop(trajectory, max_steps, thresholds)[2]]_vars

\* the second task starts after a first task that ran and was scored
C24_Witness ==
    /\ TaskStart
    /\ task = 2
    /\ outcome = <<"scored">>
    /\ global_plan_len >= 1

\* an iteration of execute_local_plan's loop puts an action on the trajectory
ActionTaken == pc = "exec" /\ Len(trajectory') > Len(trajectory)

\* C27: an action taken once (len(trajectory) - 1) / 2 has reached max_steps is
\* the STOP the step-count rule synthesizes
C27_MonitorBeforeEachAction ==
    [][(ActionTaken /\ Len(trajectory) - 1 >= 2 * max_steps) =>
          trajectory'[Len(trajectory) + 1] = StepCountStop]_vars

\* a STOP action, whatever its origin
IsStopAction(a) == IsAction(a) /\ a.action_type = "STOP"

\* C28: an iteration whose action is judged aligned goes on to the next entry of
\* the same local plan (index one higher, local plan, phase cursor and global
\* plan unchanged) when the action is not a STOP, and ends the phase loop when
\* it is a STOP
C28_AlignedMove ==
    [][ExecAligned =>
          IF IsStopAction(NextAction)
             THEN pc' # "exec"
             ELSE /\ pc' = "exec"
                  /\ action_num' = action_num + 1
                  /\ local_plan' = local_plan
                  /\ phase_num' = phase_num
                  /\ global_plan' = global_plan]_vars

\* the last STOP action of a trajectory that holds one
LastStop(t) ==
    t[CHOOSE i \in DOMAIN t :
          IsStopAction(t[i]) /\ \A j \in DOMAIN t : IsStopAction(t[j]) => j <= i]

\* C29: an iteration that takes a STOP action, whatever its origin, is the last
\* of its phase loop; and a score, once recorded, is that of the answer of the
\* last STOP of the trajectory
C29_StopEndsPhaseAndIsScored ==
    /\ [][(ActionTaken /\ IsStopAction(NextAction)) => pc' # "exec"]_vars
    /\ [][(pc = "score" /\ scores' # scores) =>
             /\ \E i \in DOMAIN trajectory : IsStopAction(trajectory[i])
             /\ scores' = Append(scores, exact_match(Config(task).exact_match,
                                                     LastStop(trajectory).answer))]_vars

\* C30: the tasks are begun one at a time in list order, each when every task
\* before it has its outcome; at most one task is running; and a local plan is
\* requested only between two calls of execute_local_plan, never during one
C30_StrictlySequential ==
    /\ [](Len(outcome) = IF InTaskLoop THEN task - 1 ELSE task)
    /\ [][task' # task => task' = task + 1 /\ Len(outcome) = task]_vars
    /\ [][phase_log' # phase_log =>
             \/ task' = task + 1
             \/ pc = "phase" /\ NoFrame(local_plan, action_num, cur_phase_task)]_vars

\* the second task is in the loop of its second phase, the first task has its
\* outcome
C30_Witness ==
    /\ task = 2
    /\ pc = "exec"
    /\ phase_log = <<0, 1>>
    /\ Len(outcome) = 1

\* an iteration in which the global planner arbitrates a replan request
ArbitrationStep == ExecReplan \/ ExecStep

ActivePlanLen == plans[global_plan.n]

\* C34: the phase task handed to the local loop is entry phase_num of the
\* active global plan (after a replan, of the new plan), with phase_num inside
\* that plan; and the phase loop ends for exhaustion only when the cursor has
\* reached the length of the active plan
C34_NextPhaseFromActivePlan ==
    [][/\ PhaseStart =>
             /\ cur_phase_task' = <<global_plan, phase_num>>
             /\ phase_num < ActivePlanLen
       /\ (DriverAfterPhase /\ done # "True" /\ pc' = "score")
             => phase_num' >= ActivePlanLen]_vars

\* C35: when the evaluator is called on the trajectory of a task, the last
\* element of the trajectory is an Action, the final STOP, whose answer the
\* string evaluator reads
C35_EvaluatedTrajectoryEndsWithStop ==
    pc = "score" =>
        /\ IsAction(get_last_action(trajectory))
        /\ IsStopAction(get_last_action(trajectory))

----------------------------------------------------------------------------
(* The early-stop monitor on its own: early_stop applied to every          *)
(* well-formed Trajectory of at most MaxActs actions.                      *)

ESActions == {create_none_action, Action("CLICK", 1, <<>>), Action("CLICK", 2, <<>>),
              Action("TYPE", 1, <<>>), Action("TYPE", 2, <<>>),
              create_stop_action(<<"a">>)}

ActionSeqs(n) == UNION {[1..m -> ESActions] : m \in 0..n}

\* [state, action, state, ..., action, state]
Interleave(as) == [i \in 1..(2 * Len(as) + 1) |->
                      IF i % 2 = 1 THEN StateInfo(0) ELSE as[i \div 2]]

InitEarlyStop ==
    /\ pc = "es_call"
    /\ trajectory \in {Interleave(as) : as \in ActionSeqs(MaxActs)}
    /\ max_steps \in 1..MaxStepsB
    /\ thresholds \in Thresholds
    /\ early_stop_flag = FALSE
    /\ stop_info = NoReason
    /\ IdleLoop

\* a call that takes the last action off the trajectory it is given
CallEarlyStop_ConsumesAction ==
    /\ pc \in {"es_call", "es_done"}
    /\ early_stop_flag' = early_stop(trajectory, max_steps, thresholds)[1]
    /\ stop_info' = early_stop(trajectory, max_steps, thresholds)[2]
    /\ trajectory' = IF Len(trajectory) >= 3
                      THEN SubSeq(trajectory, 1, Len(trajectory) - 2)
                      ELSE trajectory
    /\ pc' = "es_done"
    /\ UNCHANGED <<call, result, session, task, action_history, max_steps, thresholds, plans,
                   initial_global_plan, global_plan, global_plan_len, global_plan_num,
                   phase_num, cur_phase_task, local_plan, action_num, done, scores,
                   env_steps, outcome, phase_log, first_plan_stops, decisions>>

\* line 324: early_stop_flag, stop_info = early_stop(trajectory, max_steps, early_stop_thresholds);
\* the call may be made again on the same arguments
CallEarlyStop ==
    /\ pc \in {"es_call", "es_done"}
    /\ early_stop_flag' = early_stop(trajectory, max_steps, thresholds)[1]
    /\ stop_info' = early_stop(trajectory, max_steps, thresholds)[2]
    /\ pc' = "es_done"
    /\ UNCHANGED <<call, result, session, task, trajectory, action_history, max_steps, thresholds, plans,
                   initial_global_plan, global_plan, global_plan_len, global_plan_num,
                   phase_num, cur_phase_task, local_plan, action_num, done, scores,
                   env_steps, outcome, phase_log, first_plan_stops, decisions>>

NextEarlyStop == CallEarlyStop

SpecEarlyStop == InitEarlyStop /\ [][NextEarlyStop]_vars

----------------------------------------------------------------------------
(* Vocabulary of the early-stop claims, stated on the trajectory itself *)

Acts == OddSlice(trajectory)

NumActs == Len(Acts)

\* the last k actions, for 0 <= k <= NumActs
Last(k) == {Acts[i] : i \in (NumActs - k + 1)..NumActs}

StepsBelowMax == NumActs < max_steps

Returned(flag, msg, n) ==
    pc = "es_done" /\ early_stop_flag = flag /\ stop_info = [msg |-> msg, n |-> n]

\* C6: a trajectory with (len - 1) / 2 >= max_steps yields
\* (True, "Reach max steps <max_steps>"), whatever its actions and the thresholds.
C6_StepCountRule ==
    (pc = "es_done" /\ (Len(trajectory) - 1) \div 2 >= max_steps)
        => Returned(TRUE, "Reach max steps ", max_steps)

C6_Witness ==
    /\ Returned(TRUE, "Reach max steps ", max_steps)
    /\ NumActs = max_steps
    /\ \E a \in Last(1) : a.action_type = "TYPE"
    /\ thresholds.parsing_failure = 1

\* The statement of C7 for the thresholds k >= kmin: with k the parsing_failure
\* threshold, at least k actions, fewer than max_steps steps and the last k
\* actions all "none", the result is (True, "Failed to parse actions for k times").
ParseFailureRule(kmin) ==
    LET k == thresholds.parsing_failure
    IN  (/\ pc = "es_done"
         /\ k >= kmin
         /\ NumActs >= k
         /\ StepsBelowMax
         /\ \A a \in Last(k) : a.action_type = "NONE")
            => Returned(TRUE, "Failed to parse actions for ", k)

ReplaceAction(i, a) == [trajectory EXCEPT ![2 * i] = a]

ValidActions == {a \in ESActions : a.action_type # "NONE"}

\* early_stop has reported the parsing failure: the last k >= 1 actions are all "none"
ReportedParseFailure ==
    LET k == thresholds.parsing_failure
    IN  /\ Returned(TRUE, "Failed to parse actions for ", k)
        /\ k >= 1
        /\ NumActs >= k
        /\ \A a \in Last(k) : a.action_type = "NONE"

\* C8 as stated: replacing any one of the last k "none" actions by a valid action,
\* all else equal, makes early_stop return stop = False.
C8_AsStated ==
    ReportedParseFailure =>
        \A i \in (NumActs - thresholds.parsing_failure + 1)..NumActs :
            \A a \in ValidActions :
                early_stop(ReplaceAction(i, a), max_steps, thresholds)[1] = FALSE

\* C8, amended: after the replacement early_stop no longer reports a parsing
\* failure, and it returns stop = False unless the replaced trajectory ends in a
\* repetition (its last action is a TYPE met repeating_action times in the history,
\* or a non-TYPE action repeated over the last repeating_action actions).
C8_ParseFailureConverse ==
    ReportedParseFailure =>
        \A i \in (NumActs - thresholds.parsing_failure + 1)..NumActs :
            \A a \in ValidActions :
                LET t2 == ReplaceAction(i, a)
                    r == early_stop(t2, max_steps, thresholds)
                    acts2 == OddSlice(t2)
                    last2 == acts2[NumActs]
                    k == thresholds.repeating_action
                    same == {j \in 1..NumActs : is_equivalent(acts2[j], last2)}
                    repeats == IF last2.action_type = "TYPE"
                               THEN Cardinality(same) >= k
                               ELSE IF k = 0 THEN same = 1..NumActs
                               ELSE NumActs >= k /\ (NumActs - k + 1)..NumActs \subseteq same
                IN  /\ r[2].msg # "Failed to parse actions for "
                    /\ ~repeats => r = <<FALSE, NoReason>>

C8_Witness ==
    /\ ReportedParseFailure
    /\ thresholds.parsing_failure = 2
    /\ NumActs = 3
    /\ Acts[1].action_type = "TYPE"
    /\ thresholds.repeating_action = 2

LastAct == Acts[NumActs]

\* the last k actions are each equivalent to the most recent one
LastKRepeat(k) == NumActs >= k /\ \A a \in Last(k) : is_equivalent(a, LastAct)

\* the number of actions of the whole history equivalent to the most recent one
CountEquivalent == Cardinality({i \in 1..NumActs : is_equivalent(Acts[i], LastAct)})

C10_AsStated ==
    (pc = "es_done" /\ NumActs >= 1 /\ LastAct.action_type = "TYPE")
        => (Returned(TRUE, "Same typing action for ", thresholds.repeating_action)
                <=> CountEquivalent >= thresholds.repeating_action)

\* C10, amended: the same equivalence when the step count is below max_steps.
C10_TypingRule ==
    (pc = "es_done" /\ NumActs >= 1 /\ LastAct.action_type = "TYPE" /\ StepsBelowMax)
        => (Returned(TRUE, "Same typing action for ", thresholds.repeating_action)
                <=> CountEquivalent >= thresholds.repeating_action)

\* a TYPE repeated with another action in between
C10_Witness ==
    /\ Returned(TRUE, "Same typing action for ", 2)
    /\ NumActs = 3
    /\ LastAct.action_type = "TYPE"
    /\ is_equivalent(Acts[1], LastAct)
    /\ ~is_equivalent(Acts[2], LastAct)

-----------------------------------------------------------------------------
(* The text functions on their own: a string is a sequence of tokens, a     *)
(* token standing for a delimiter, a marker, a line break or a run of other *)
(* characters; the functions are applied to every text up to MaxText tokens *)

MaxText == 4

Texts(tokens, n) == UNION {[1..m -> tokens] : m \in 0..n}

\* s[i..j], empty when j < i
Slice(s, i, j) == [k \in 1..(IF j < i THEN 0 ELSE j - i + 1) |-> s[i + k - 1]]

\* "action_splitter" of the instruction's meta_data: the token of three backquotes
action_splitter == "FENCE"

\* URL_MAPPINGS: the real address of a site and the local one that replaces it
RealUrl == "http://reddit.com"
LocalUrl == "REDDIT"

\* map_url_to_local: every occurrence of a real address becomes the local one
map_url_to_local(s) == [i \in DOMAIN s |-> IF s[i] = RealUrl THEN LocalUrl ELSE s[i]]

\* re.search(rf"{action_splitter}(.*?){action_splitter}", response): the leftmost
\* delimiter that is followed, before any line break, by a second delimiter;
\* the group is the text between the two
SplitterPairs(s) ==
    {p \in (DOMAIN s) \X (DOMAIN s) :
        /\ p[1] < p[2]
        /\ s[p[1]] = action_splitter
        /\ s[p[2]] = action_splitter
        /\ \A k \in (p[1] + 1)..(p[2] - 1) : s[k] \notin {action_splitter, "\n"}}

\* LocalPromptConstructor._extract_action followed by map_url_to_local
extract_action(response) ==
    IF SplitterPairs(response) = {}
    THEN [exc |-> "ActionParsingError", value |-> <<>>]
    ELSE LET p == CHOOSE q \in SplitterPairs(response) :
                      \A r \in SplitterPairs(response) : q[1] <= r[1]
         IN  [exc |-> "none",
              value |-> map_url_to_local(Slice(response, p[1] + 1, p[2] - 1))]

\* the action grammar of each action set: the action strings it accepts
ActionGrammar(tag) ==
    IF tag = "id_accessibility_tree" THEN {<<"click [1]">>}
    ELSE IF tag = "playwright" THEN {<<"page.stop(a)">>}
    ELSE {}

\* create_id_based_action and create_playwright_action: the action an action
\* string denotes, ActionParsingError when the grammar rejects the string
create_action(tag, str) ==
    IF str \notin ActionGrammar(tag)
    THEN [exc |-> "ActionParsingError", value |-> <<>>]
    ELSE [exc |-> "none",
          value |-> IF tag = "id_accessibility_tree"
                    THEN Action("CLICK", 1, <<>>)
                    ELSE create_stop_action(<<"a">>)]

\* action["raw_prediction"] = action_description
WithRawPrediction(a, raw) ==
    [kind |-> a.kind, action_type |-> a.action_type, arg |-> a.arg,
     answer |-> a.answer, description |-> a.description, raw_prediction |-> raw]

\* next_action without its except clause
next_action_NoExcept(tag, action_description) ==
    LET parsed == extract_action(action_description)
        made == create_action(tag, parsed.value)
    IN  IF parsed.exc # "none" THEN parsed
        ELSE IF tag \notin {"id_accessibility_tree", "playwright"}
        THEN [exc |-> "ValueError", value |-> <<>>]
        ELSE IF made.exc # "none" THEN made
        ELSE [exc |-> "none", value |-> WithRawPrediction(made.value, action_description)]

\* next_action with an except clause that catches every exception
next_action_ExceptAll(tag, action_description) ==
    LET parsed == extract_action(action_description)
        made == create_action(tag, parsed.value)
        none == [exc |-> "none",
                 value |-> WithRawPrediction(create_none_action, action_description)]
    IN  IF parsed.exc = "ActionParsingError" THEN none
        ELSE IF tag \notin {"id_accessibility_tree", "playwright"} THEN none
        ELSE IF made.exc = "ActionParsingError" THEN none
        ELSE [exc |-> "none", value |-> WithRawPrediction(made.value, action_description)]

\* LocalAgent.next_action
next_action(tag, action_description) ==
    LET parsed == extract_action(action_description)
        made == create_action(tag, parsed.value)
        none == [exc |-> "none",
                 value |-> WithRawPrediction(create_none_action, action_description)]
    IN  IF parsed.exc = "ActionParsingError" THEN none
        ELSE IF tag \notin {"id_accessibility_tree", "playwright"}
        THEN [exc |-> "ValueError", value |-> <<>>]
        ELSE IF made.exc = "ActionParsingError" THEN none
        ELSE [exc |-> "none", value |-> WithRawPrediction(made.value, action_description)]

\* a field of a parsed record: None, or a string (which may be empty)
None == [none |-> TRUE, str |-> <<>>]
Str(s) == [none |-> FALSE, str |-> s]

\* str.strip(): white space off both ends
WhiteSpace == {" ", "\n"}
RECURSIVE lstrip(_)
lstrip(s) == IF s # <<>> /\ Head(s) \in WhiteSpace THEN lstrip(Tail(s)) ELSE s
RECURSIVE rstrip(_)
rstrip(s) == IF s # <<>> /\ s[Len(s)] \in WhiteSpace
             THEN rstrip(SubSeq(s, 1, Len(s) - 1)) ELSE s
strip(s) == rstrip(lstrip(s))

\* positions of a token in a text
Occurrences(tok, s) == {i \in DOMAIN s : s[i] = tok}
First(S) == CHOOSE i \in S : \A j \in S : i <= j

\* re.search(marker + r"(.*?)\n", response): the leftmost marker with a line
\* break somewhere after it; the group runs up to the first such break
LineField(marker, s) ==
    LET starts == {i \in Occurrences(marker, s) :
                      \E j \in Occurrences("\n", s) : j > i}
    IN  IF starts = {} THEN None
        ELSE LET i == First(starts)
                 j == First({k \in Occurrences("\n", s) : k > i})
             IN  Str(Slice(s, i + 1, j - 1))

\* the same search with "" in place of None when nothing matches
TailField_EmptyDefault(marker, s) ==
    IF Occurrences(marker, s) = {} THEN Str(<<>>)
    ELSE Str(strip(Slice(s, First(Occurrences(marker, s)) + 1, Len(s))))

\* re.search(marker + r"(.*)", response, re.DOTALL) and .strip(): the leftmost
\* marker; the group is the rest of the text
TailField(marker, s) ==
    IF Occurrences(marker, s) = {} THEN None
    ELSE Str(strip(Slice(s, First(Occurrences(marker, s)) + 1, Len(s))))

\* .strip().lower() of a field that matched
StripLower(f) == IF f.none THEN None ELSE Str(lower(strip(f.str)))

_extract_action_and_reasons(response) ==
    [Action |-> LineField("Action: ", response),
     Reasons |-> TailField("Reasons: ", response)]

parse_check_result(response) ==
    [Result |-> StripLower(LineField("Result: ", response)),
     Reasons |-> TailField("Reasons: ", response)]

parse_request_result(response) ==
    [RequestType |-> StripLower(LineField("Request Type: ", response)),
     Reasons |-> TailField("Reasons: ", response)]

parse_decide_result(response) ==
    [Decision |-> StripLower(LineField("Decision: ", response)),
     Reasons |-> TailField("Reasons: ", response)]

parse_revise_result(response) ==
    [RevisedPlan |-> TailField("Revised Plan: ", response)]

parse_collation_result(response) ==
    [Collation |-> TailField("Collation: ", response)]

\* the markers each decision-record parser looks for
Markers(fn) ==
    CASE fn = "_extract_action_and_reasons" -> {"Action: ", "Reasons: "}
      [] fn = "parse_check_result" -> {"Result: ", "Reasons: "}
      [] fn = "parse_request_result" -> {"Request Type: ", "Reasons: "}
      [] fn = "parse_decide_result" -> {"Decision: ", "Reasons: "}
      [] fn = "parse_revise_result" -> {"Revised Plan: "}
      [] fn = "parse_collation_result" -> {"Collation: "}

DecisionParsers ==
    {"_extract_action_and_reasons", "parse_check_result", "parse_request_result",
     "parse_decide_result", "parse_revise_result", "parse_collation_result"}

\* the responses a parser is applied to: its markers, white space and a word
DecisionCalls ==
    UNION {{[fn |-> f, tag |-> "-", text |-> t] :
               t \in Texts(Markers(f) \cup {"A", " ", "\n"}, MaxText)} :
           f \in DecisionParsers}

\* the first line break after position i of s, 0 when there is none
NextBreak(s, i) ==
    IF \E k \in Occurrences("\n", s) : k > i
    THEN First({k \in Occurrences("\n", s) : k > i})
    ELSE 0

\* the plan numbers a text may carry
PlanNumbers == {"1", "2"}

\* "**Action n:**"
ActionMark(n) == IF n = "1" THEN "**Action 1:**" ELSE "**Action 2:**"
ActionMarks == {ActionMark(n) : n \in PlanNumbers}

\* "**Subtask n: D**", a header with a description, and "**Subtask n:**",
\* the header of the planner's prompt
HeaderDesc(n) == IF n = "1" THEN "**Subtask 1: D**" ELSE "**Subtask 2: D**"
HeaderBare(n) == IF n = "1" THEN "**Subtask 1:**" ELSE "**Subtask 2:**"
HeaderDescs == {HeaderDesc(n) : n \in PlanNumbers}
SubtaskMark == "- **Subtask**: "
ExpectedMark == "- **Expected State**: "

\* group(1), the digits of a mark
MarkNumber(mark) == CHOOSE n \in PlanNumbers : mark \in {ActionMark(n), HeaderDesc(n)}

\* a match of r'\*\*Action (\d+):\*\* (.+?)\n' that starts at position i: the
\* mark, one space, at least one character, and the first line break after them
LocalMatchAt(s, i) ==
    LET k == NextBreak(s, i)
    IN  IF /\ s[i] \in ActionMarks
           /\ i + 1 <= Len(s)
           /\ s[i + 1] = " "
           /\ k >= i + 3
        THEN [ok |-> TRUE, end |-> k,
              rec |-> [ActionNumber |-> MarkNumber(s[i]),
                       ActionDescription |-> strip(Slice(s, i + 2, k - 1))]]
        ELSE [ok |-> FALSE, end |-> i, rec |-> <<>>]

\* re.finditer and the loop of parse_local_plan, from position i on: matches
\* are taken left to right and do not overlap
RECURSIVE ScanLocal(_, _)
ScanLocal(s, i) ==
    IF i > Len(s) THEN <<>>
    ELSE IF LocalMatchAt(s, i).ok
    THEN <<LocalMatchAt(s, i).rec>> \o ScanLocal(s, LocalMatchAt(s, i).end + 1)
    ELSE ScanLocal(s, i + 1)

\* parse_local_plan taking a mark that no line break follows as a match too
parse_local_plan_OpenLine(text) ==
    ScanLocal(text \o <<"\n">>, 1)

parse_local_plan(text) == ScanLocal(text, 1)

\* the rest of a match of subtask_pattern once its header is read, with the
\* "- **Subtask**: " at position j: the subtask runs to the first line break,
\* the expected-state mark follows that break at once, the expected state
\* runs to the next line break, and a second line break follows it
GlobalTailAt(s, j) ==
    LET k == NextBreak(s, j)
        m == NextBreak(s, k + 1)
    IN  IF /\ s[j] = SubtaskMark
           /\ k >= j + 2
           /\ k + 1 <= Len(s)
           /\ s[k + 1] = ExpectedMark
           /\ m >= k + 3
           /\ m + 1 <= Len(s)
           /\ s[m + 1] = "\n"
        THEN [ok |-> TRUE, end |-> m + 1,
              action |-> strip(Slice(s, j + 1, k - 1)),
              state |-> strip(Slice(s, k + 2, m - 1))]
        ELSE [ok |-> FALSE, end |-> j, action |-> <<>>, state |-> <<>>]

\* a match of subtask_pattern that starts at position i: a header with a
\* description, then as little text as possible up to a subtask line that
\* completes the match
GlobalMatchAt(s, i) ==
    LET tails == {j \in (i + 1)..Len(s) : GlobalTailAt(s, j).ok}
    IN  IF s[i] \in HeaderDescs /\ tails # {}
        THEN LET t == GlobalTailAt(s, First(tails))
             IN  [ok |-> TRUE, end |-> t.end,
                  rec |-> [SubtaskNumber |-> MarkNumber(s[i]),
                           SubtaskDescription |-> strip(<<"D">>),
                           SubtaskAction |-> t.action,
                           ExpectedState |-> t.state]]
        ELSE [ok |-> FALSE, end |-> i, rec |-> <<>>]

\* re.finditer and the loop of parse_global_plan, from position i on
RECURSIVE ScanGlobal(_, _)
ScanGlobal(s, i) ==
    IF i > Len(s) THEN <<>>
    ELSE IF GlobalMatchAt(s, i).ok
    THEN <<GlobalMatchAt(s, i).rec>> \o ScanGlobal(s, GlobalMatchAt(s, i).end + 1)
    ELSE ScanGlobal(s, i + 1)

parse_global_plan(text) == ScanGlobal(text, 1)

MaxBlocks == 2

RECURSIVE Flatten(_)
Flatten(ss) == IF ss = <<>> THEN <<>> ELSE Head(ss) \o Flatten(Tail(ss))

\* lines of a local plan: complete ones, one that no line break ends, one
\* without the space after the mark, one without a mark
LocalLines ==
    {<<ActionMark(n), " ", "A", "\n">> : n \in PlanNumbers}
        \cup {<<ActionMark("1"), " ", "A">>,
              <<ActionMark("1"), "A", "\n">>,
              <<"A", "\n">>}

LocalPlanCalls ==
    {[fn |-> "parse_local_plan", tag |-> "-", text |-> t] :
        t \in {Flatten(ls) : ls \in Texts(LocalLines, MaxBlocks)}
                 \cup Texts({ActionMark("1"), " ", "A", "\n"}, MaxText)}

\* a subtask block under a given header line
Block(header) ==
    <<header, "\n", SubtaskMark, "X", "\n", ExpectedMark, "Y", "\n", "\n">>

\* blocks of a global plan: with a described header, with the header of the
\* prompt, without the closing blank line, without the expected state, and a
\* line that belongs to no block
GlobalBlocks ==
    {Block(HeaderDesc(n)) : n \in PlanNumbers}
        \cup {Block(HeaderBare(n)) : n \in PlanNumbers}
        \cup {SubSeq(Block(HeaderDesc("1")), 1, 8),
              <<HeaderDesc("1"), "\n", SubtaskMark, "X", "\n", "\n">>,
              <<"A", "\n">>}

GlobalPlanCalls ==
    {[fn |-> "parse_global_plan", tag |-> "-", text |-> Flatten(bs)] :
        bs \in Texts(GlobalBlocks, MaxBlocks)}

ActionSetTags == {"id_accessibility_tree", "playwright", "html"}
DescriptionTokens == {action_splitter, "click [1]", "page.stop(a)", "\n", RealUrl}

NextActionCalls ==
    {[fn |-> "next_action", tag |-> t, text |-> d] :
        t \in ActionSetTags, d \in Texts(DescriptionTokens, MaxText)}

TextCalls == NextActionCalls \cup DecisionCalls \cup LocalPlanCalls \cup GlobalPlanCalls

\* no batch is running
IdleBatch ==
    /\ trajectory = <<>>
    /\ max_steps = 1
    /\ thresholds = [parsing_failure |-> 0, repeating_action |-> 0]
    /\ early_stop_flag = FALSE
    /\ stop_info = NoReason
    /\ task = 0
    /\ action_history = <<>>
    /\ plans = <<>>
    /\ initial_global_plan = NoPlan
    /\ global_plan = NoPlan
    /\ global_plan_len = 0
    /\ global_plan_num = 0
    /\ phase_num = 0
    /\ NoFrame(local_plan, action_num, cur_phase_task)
    /\ done = "unbound"
    /\ scores = <<>>
    /\ env_steps = <<>>
    /\ outcome = <<>>
    /\ phase_log = <<>>
    /\ first_plan_stops = FALSE
    /\ decisions = "none"
    /\ session = "none"

InitText ==
    /\ pc = "text_call"
    /\ call \in TextCalls
    /\ result = NoResult
    /\ IdleBatch

LoopVars == <<task, trajectory, action_history, max_steps, thresholds,
              early_stop_flag, stop_info, plans, initial_global_plan, global_plan,
              global_plan_len, global_plan_num, phase_num, cur_phase_task,
              local_plan, action_num, done, scores, env_steps, outcome,
              phase_log, first_plan_stops, decisions, session>>

\* agent.next_action(trajectory, action_description, meta_data)
CallNextAction ==
    /\ pc = "text_call"
    /\ call.fn = "next_action"
    /\ result' = next_action(call.tag, call.text)
    /\ pc' = "text_done"
    /\ UNCHANGED call
    /\ UNCHANGED LoopVars

\* a call of one of the text parsers: it returns what the parser computes
CallParser(fn, value) ==
    /\ pc = "text_call"
    /\ call.fn = fn
    /\ result' = [exc |-> "none", value |-> value]
    /\ pc' = "text_done"
    /\ UNCHANGED call
    /\ UNCHANGED LoopVars

CallExtractActionAndReasons ==
    CallParser("_extract_action_and_reasons", _extract_action_and_reasons(call.text))

CallParseCheckResult ==
    CallParser("parse_check_result", parse_check_result(call.text))

CallParseRequestResult ==
    CallParser("parse_request_result", parse_request_result(call.text))

CallParseDecideResult ==
    CallParser("parse_decide_result", parse_decide_result(call.text))

CallParseReviseResult ==
    CallParser("parse_revise_result", parse_revise_result(call.text))

CallParseCollationResult ==
    CallParser("parse_collation_result", parse_collation_result(call.text))

CallParseLocalPlan ==
    CallParser("parse_local_plan", parse_local_plan(call.text))

CallParseGlobalPlan ==
    CallParser("parse_global_plan", parse_global_plan(call.text))

NextText ==
    \/ CallNextAction
    \/ CallExtractActionAndReasons
    \/ CallParseCheckResult
    \/ CallParseRequestResult
    \/ CallParseDecideResult
    \/ CallParseReviseResult
    \/ CallParseCollationResult
    \/ CallParseLocalPlan
    \/ CallParseGlobalPlan

SpecText == InitText /\ [][NextText]_vars

-----------------------------------------------------------------------------
(* Start-up: the command line and the environment are read, the agents are  *)
(* constructed, and the batch begins                                        *)

\* the settings a run is started with: the action set, the observation type,
\* a site URL in the environment ("unset", "empty" or "set"), the provider and
\* the mode of the language model
ConfigCalls ==
    {[fn |-> "config", tag |-> t, observation_type |-> o, url |-> u,
      provider |-> p, mode |-> m] :
        t \in {"id_accessibility_tree", "playwright"},
        o \in {"accessibility_tree", "html", "image"},
        u \in {"unset", "empty", "set"},
        p \in {"openai", "huggingface"},
        m \in {"chat", "completion", "instruct"}}

\* what start-up raises, "none" when it raises nothing: the assert of env_config
\* at import (os.environ.get falls back to a default for an unset URL), the
\* check at the end of config(), the else branch of construct_llm_config
StartupError(args) ==
    IF args.url = "empty" THEN "AssertionError"
    ELSE IF /\ args.tag = "id_accessibility_tree"
            /\ args.observation_type # "accessibility_tree" THEN "ValueError"
    ELSE IF args.provider # "openai" THEN "NotImplementedError"
    ELSE "none"

\* GlobalPlanner.global_plan, lines 70-98: the mode is looked at when the plan
\* is asked for
GlobalPlanError(args) ==
    IF args.provider # "openai" THEN "NotImplementedError"
    ELSE IF args.mode \notin {"chat", "completion"} THEN "ValueError"
    ELSE "none"

InitConfig ==
    /\ pc = "startup"
    /\ call \in ConfigCalls
    /\ result = NoResult
    /\ IdleBatch

\* the imports, config(), construct_agent twice, and the call of test_plan: an
\* exception ends the program, otherwise the batch is entered
Startup ==
    /\ pc = "startup"
    /\ result' = [exc |-> StartupError(call), value |-> <<>>]
    /\ pc' = IF StartupError(call) = "none" THEN "batch" ELSE "config_error"
    /\ UNCHANGED call
    /\ UNCHANGED LoopVars

\* a task begun under the settings of the run: the global plan is asked for
\* after env.reset, and raises under a mode it does not know
ConfiguredBeginTask ==
    /\ call.fn = "config"
    /\ BeginTask
    /\ IF GlobalPlanError(call) = "none"
          THEN outcome' = outcome
          ELSE outcome' = Append(outcome, "unhandled")

NextConfig ==
    \/ Startup
    \/ ConfiguredBeginTask

SpecConfig == InitConfig /\ [][NextConfig]_vars

-----------------------------------------------------------------------------
(* The combined evaluator on its own: evaluator_router and EvaluatorComb    *)
(* applied to every list of up to MaxEvals eval_types                       *)

MaxEvals == 3

\* evaluator_router: one evaluator per eval_type, ValueError for a type it does
\* not know
EvaluatorFor(eval_type) ==
    CASE eval_type = "string_match" -> "StringEvaluator"
      [] eval_type = "url_match" -> "URLExactEvaluator"
      [] eval_type = "program_html" -> "HTMLContentExactEvaluator"
      [] OTHER -> "ValueError"

\* URLExactEvaluator.clean_url: a closing "/" is dropped
clean_url(url) == IF url = "u/" THEN "u" ELSE url

\* URLExactEvaluator.__call__ under the EXACT rule, the reference being "u"
URLExactEvaluator(page_url) == IF clean_url(page_url) \in {clean_url("u")} THEN 1 ELSE 0

\* HTMLContentExactEvaluator.__call__: 1.0 times the exact_match or any(...) of
\* each target, which the page decides
HTMLContentExactEvaluator(page_matches) == 1 * (IF page_matches THEN 1 ELSE 0)

\* cur_score = evaluator(trajectory, config_file, page, client)
SubScore(evaluator, args) ==
    CASE evaluator = "StringEvaluator" ->
             StringEvaluator(<<StateInfo(0), create_stop_action(args.answer)>>, Config(1))
      [] evaluator = "URLExactEvaluator" -> URLExactEvaluator(args.page_url)
      [] evaluator = "HTMLContentExactEvaluator" -> HTMLContentExactEvaluator(args.page_matches)

\* the loop of EvaluatorComb.__call__ keeping the score of the last evaluator only
EvaluatorComb_LastOnly(evaluators, args) ==
    IF evaluators = <<>> THEN 1
    ELSE SubScore(evaluators[Len(evaluators)], args)

\* EvaluatorComb.__call__: score = 1.0, then score *= cur_score per evaluator
RECURSIVE EvaluatorComb(_, _)
EvaluatorComb(evaluators, args) ==
    IF evaluators = <<>> THEN 1
    ELSE SubScore(Head(evaluators), args) * EvaluatorComb(Tail(evaluators), args)

\* evaluator_router(config_file) and the call of what it returns
Evaluate(args) ==
    LET evaluators == [i \in DOMAIN args.eval_types |-> EvaluatorFor(args.eval_types[i])]
    IN  IF \E i \in DOMAIN evaluators : evaluators[i] = "ValueError"
        THEN [exc |-> "ValueError", value |-> 0]
        ELSE [exc |-> "none", value |-> EvaluatorComb(evaluators, args)]

EvalCalls ==
    {[fn |-> "evaluator", eval_types |-> ts, answer |-> a, page_url |-> u,
      page_matches |-> h] :
        ts \in Texts({"string_match", "url_match", "program_html", "string_soft"}, MaxEvals),
        a \in {<<"A">>, <<"b">>},
        u \in {"u", "u/", "v"},
        h \in BOOLEAN}

InitEval ==
    /\ pc = "eval_call"
    /\ call \in EvalCalls
    /\ result = NoResult
    /\ IdleBatch

\* lines 332-338 of the driver on their own
CallEvaluator ==
    /\ pc = "eval_call"
    /\ result' = Evaluate(call)
    /\ pc' = "eval_done"
    /\ UNCHANGED call
    /\ UNCHANGED LoopVars

NextEval ==
    \/ CallEvaluator

SpecEval == InitEval /\ [][NextEval]_vars

\* the evaluator returned a score
Evaluated == pc = "eval_done" /\ result.exc = "none"

\* the score of the sub-evaluator selected by the i-th eval_type
SubScoreOf(i) == SubScore(EvaluatorFor(call.eval_types[i]), call)

\* C26: the combined score lies in [0,1]; every sub-score being 0 or 1, it is 1
\* exactly when every selected sub-evaluator returned 1, and 0 as soon as one
\* returned 0
C26_CombinedScoreIsProduct ==
    Evaluated =>
        /\ result.value >= 0 /\ result.value <= 1
        /\ \A i \in DOMAIN call.eval_types : SubScoreOf(i) \in {0, 1}
        /\ result.value = 1 <=> \A i \in DOMAIN call.eval_types : SubScoreOf(i) = 1
        /\ (\E i \in DOMAIN call.eval_types : SubScoreOf(i) = 0) => result.value = 0

\* a right answer and a right page content on a wrong URL: the score is 0
C26_Witness ==
    /\ Evaluated
    /\ call.eval_types = <<"url_match", "string_match", "program_html">>
    /\ call.answer = <<"A">>
    /\ call.page_url = "v"
    /\ call.page_matches
    /\ result.value = 0

\* one of the four configuration errors is present
Misconfigured ==
    \/ call.tag = "id_accessibility_tree" /\ call.observation_type # "accessibility_tree"
    \/ call.url # "set"
    \/ call.provider # "openai"
    \/ call.mode \notin {"chat", "completion"}

\* C25: under a configuration error the run ends at start-up: no task is begun,
\* env.reset is not called and nothing is logged as the failure of a task
C25_ConfigErrorsFailFast ==
    (call.fn = "config" /\ Misconfigured) =>
        /\ pc \in {"startup", "config_error"}
        /\ task = 0
        /\ session = "none"
        /\ outcome = <<>>

-----------------------------------------------------------------------------
\* vocabulary of the claims on the text functions
Called(fn) == pc = "text_done" /\ call.fn = fn
HasSplitterPair(s) ==
    \E i, j \in DOMAIN s :
        /\ i < j
        /\ s[i] = action_splitter
        /\ s[j] = action_splitter
        /\ \A k \in (i + 1)..(j - 1) : s[k] # "\n"
IsNoneAction(a) == a.action_type = "NONE"

\* C15: next_action never lets an ActionParsingError out; a description without
\* a delimiter pair gives the none action whatever the action set, a
\* description whose delimited text the grammar of a supported action set
\* rejects gives the none action, and every action returned carries the description, unchanged,
\* as its raw_prediction
C15_NextActionCatchesParsingError ==
    Called("next_action") =>
        /\ result.exc # "ActionParsingError"
        /\ ~HasSplitterPair(call.text) =>
               result.exc = "none" /\ IsNoneAction(result.value)
        /\ (/\ call.tag \in {"id_accessibility_tree", "playwright"}
            /\ HasSplitterPair(call.text)
            /\ extract_action(call.text).value \notin ActionGrammar(call.tag)) =>
               result.exc = "none" /\ IsNoneAction(result.value)
        /\ result.exc = "none" => result.value.raw_prediction = call.text

\* a description holding a real address between the delimiters and the action
\* after them: the leftmost pair is read, the grammar rejects it
C15_Witness ==
    /\ Called("next_action")
    /\ call.tag = "id_accessibility_tree"
    /\ call.text = <<action_splitter, RealUrl, action_splitter, "click [1]">>
    /\ IsNoneAction(result.value)
    /\ result.value.raw_prediction = call.text

\* the field a decision-record parser fills from a marker
FieldOf(marker) ==
    CASE marker = "Action: " -> result.value.Action
      [] marker = "Result: " -> result.value.Result
      [] marker = "Request Type: " -> result.value.RequestType
      [] marker = "Decision: " -> result.value.Decision
      [] marker = "Revised Plan: " -> result.value.RevisedPlan
      [] marker = "Collation: " -> result.value.Collation
      [] marker = "Reasons: " -> result.value.Reasons

\* C16: each decision-record parser returns on every response, and a field
\* whose marker does not occur in the response is None, not the empty string
C16_AbsentMarkerGivesNone ==
    \A fn \in DecisionParsers :
        Called(fn) =>
            /\ result.exc = "none"
            /\ \A marker \in Markers(fn) :
                   Occurrences(marker, call.text) = {} =>
                       FieldOf(marker) = None /\ FieldOf(marker) # Str(<<>>)

\* a check response with reasons and no result line
C16_Witness ==
    /\ Called("parse_check_result")
    /\ call.text = <<"Reasons: ", "A", "\n">>
    /\ result.value = [Result |-> None, Reasons |-> Str(<<"A">>)]

\* the complete match, if any, that starts at a position of the text parsed
MatchAt(i) ==
    IF call.fn = "parse_local_plan" THEN LocalMatchAt(call.text, i)
    ELSE GlobalMatchAt(call.text, i)

\* C17: parse_local_plan and parse_global_plan return on every text; the
\* result is empty when no complete match starts anywhere in the text, and its
\* records are those of complete matches at increasing positions of the text
C17_PlanParsersKeepCompleteMatches ==
    \A fn \in {"parse_local_plan", "parse_global_plan"} :
        Called(fn) =>
            /\ result.exc = "none"
            /\ (\A i \in DOMAIN call.text : ~MatchAt(i).ok) => result.value = <<>>
            /\ \E at \in [DOMAIN result.value -> DOMAIN call.text] :
                   /\ \A k \in DOMAIN result.value :
                          MatchAt(at[k]).ok /\ MatchAt(at[k]).rec = result.value[k]
                   /\ \A k, l \in DOMAIN result.value : k < l => at[k] < at[l]

\* a local plan of a line for action 2 and then a line for action 1: two
\* records, in the order of the text
C17_Witness ==
    /\ Called("parse_local_plan")
    /\ call.text = <<ActionMark("2"), " ", "A", "\n", ActionMark("1"), " ", "A", "\n">>
    /\ result.value = <<[ActionNumber |-> "2", ActionDescription |-> <<"A">>],
                        [ActionNumber |-> "1", ActionDescription |-> <<"A">>]>>

\* two consecutive blocks in the format the planner's prompt prescribes
PrescribedPlan == Block(HeaderBare("1")) \o Block(HeaderBare("2"))

\* C19: parse_global_plan, given two consecutive blocks in the prescribed
\* format, returns two records, numbered 1 and 2 in that order
C19_PrescribedFormatParsed ==
    (Called("parse_global_plan") /\ call.text = PrescribedPlan) =>
        /\ Len(result.value) = 2
        /\ result.value[1].SubtaskNumber = "1"
        /\ result.value[2].SubtaskNumber = "2"

----------------------------------------------------------------------------
(* Prompt construction, src/agent/prompts/prompt_constructor.py 126-176 and
   302-348.  A template is a sequence of tokens: plain text, a replacement
   field "{name}", or a doubled-brace escape "{{name}}", which str.format
   turns into the literal text "{name}". *)

MaxTemplate == 2

\* meta_data.keywords of the two instruction files
InstructionKeywords == <<"url", "objective", "observation", "previous_action">>
KeywordLists == {InstructionKeywords, <<"url">>, <<>>}

TemplateTokens ==
    {"OBSERVATION:", "{objective}", "{url}", "{observation}", "{{url}}", "{{k}}",
     "{other}"}
Intents == {"buy a mug", "{url}"}

\* the text "{" + k + "}" for a keyword k
Placeholder(k) ==
    CASE k = "url" -> "{url}"
      [] k = "objective" -> "{objective}"
      [] k = "observation" -> "{observation}"
      [] k = "previous_action" -> "{previous_action}"

\* map_url_to_real: every occurrence of a local address becomes the real one
map_url_to_real(s) == [i \in DOMAIN s |-> IF s[i] = LocalUrl THEN RealUrl ELSE s[i]]

\* the fields template.format is given at lines 149-154 / 323-328; a field that
\* is not among them raises KeyError
FormatFields == {"{objective}", "{url}", "{observation}", "{previous_action}"}
UnknownField(template) ==
    \E i \in DOMAIN template : template[i] = "{other}"

\* template.format(objective=intent, url=..., observation=obs, previous_action=...)
format(template, intent) ==
    [i \in DOMAIN template |->
        CASE template[i] = "{objective}" -> intent
          [] template[i] = "{url}" -> map_url_to_real(<<LocalUrl>>)[1]
          [] template[i] = "{observation}" -> "[1] link"
          [] template[i] = "{previous_action}" -> "None"
          [] template[i] = "{{url}}" -> "{url}"
          [] template[i] = "{{k}}" -> "{k}"
          [] OTHER -> template[i]]

Contains(text, tok) == \E i \in DOMAIN text : text[i] = tok

\* lines 156 / 330: all([f"{{k}}" not in current for k in keywords]); in an
\* f-string "{{" and "}}" are braces, so each element tests the text "{k}"
keywords_replaced(current, keywords) ==
    \A i \in DOMAIN keywords : ~Contains(current, "{k}")

\* the keys of the examples dictionary, lines 159-165 and 332-337
LocalPromptKinds == {"local_plan", "false_check", "pass_check", "revise", "request"}
GlobalPromptKinds == {"global_plan", "decide", "revise", "collation"}

\* line 323 of src/test_plan.py: the kind in the driver's call of local_plan
DriverLocalPlanKind == "global_plan"

\* get_lm_api_input in chat mode: the introduction with the meta prompt of the
\* kind, the examples of the kind, and the formatted template as the user turn
get_lm_api_input(prompt_type, current) ==
    [system |-> prompt_type, examples |-> prompt_type, user |-> current]

\* LocalPromptConstructor.construct.  self.instruction["examples"] is the list
\* that PromptConstructor.__init__ (line 36) made, and a list subscripted with
\* a string raises TypeError at line 160, before the kind is looked at
LocalConstruct(template, intent, prompt_type, keywords) ==
    IF UnknownField(template) THEN [exc |-> "KeyError", value |-> <<>>]
    ELSE IF ~keywords_replaced(format(template, intent), keywords)
    THEN [exc |-> "AssertionError", value |-> <<>>]
    ELSE [exc |-> "TypeError", value |-> <<>>]

\* GlobalPromptConstructor.construct, whose __init__ loads the instruction
\* again (lines 299-300), so that its examples are the dictionary of the file
GlobalConstruct(template, intent, prompt_type, keywords) ==
    IF UnknownField(template) THEN [exc |-> "KeyError", value |-> <<>>]
    ELSE IF ~keywords_replaced(format(template, intent), keywords)
    THEN [exc |-> "AssertionError", value |-> <<>>]
    ELSE IF prompt_type \notin GlobalPromptKinds
    THEN [exc |-> "ActionParsingError", value |-> <<>>]
    ELSE [exc |-> "none",
          value |-> get_lm_api_input(prompt_type, format(template, intent))]

PromptKinds == {"local_plan", "revise", DriverLocalPlanKind, "decide", "summary"}

ConstructCalls ==
    {[fn |-> f, template |-> t, intent |-> i, prompt_type |-> k, keywords |-> kw] :
        f \in {"LocalPromptConstructor.construct", "GlobalPromptConstructor.construct"},
        t \in Texts(TemplateTokens, MaxTemplate), i \in Intents,
        k \in PromptKinds, kw \in KeywordLists}

InitPrompt ==
    /\ pc = "prompt_call"
    /\ call \in ConstructCalls
    /\ result = NoResult
    /\ IdleBatch

CallLocalConstruct ==
    /\ pc = "prompt_call"
    /\ call.fn = "LocalPromptConstructor.construct"
    /\ result' = LocalConstruct(call.template, call.intent, call.prompt_type,
                                call.keywords)
    /\ pc' = "prompt_done"
    /\ UNCHANGED call
    /\ UNCHANGED LoopVars

CallGlobalConstruct ==
    /\ pc = "prompt_call"
    /\ call.fn = "GlobalPromptConstructor.construct"
    /\ result' = GlobalConstruct(call.template, call.intent, call.prompt_type,
                                 call.keywords)
    /\ pc' = "prompt_done"
    /\ UNCHANGED call
    /\ UNCHANGED LoopVars

NextPrompt == CallLocalConstruct \/ CallGlobalConstruct

SpecPrompt == InitPrompt /\ [][NextPrompt]_vars

\* a call of construct has returned or raised
Constructed == pc = "prompt_done"

\* the text that template.format produced in the call
Current == format(call.template, call.intent)

\* a keyword of the call whose placeholder is still in the formatted text
LeftUnsubstituted ==
    /\ ~UnknownField(call.template)
    /\ \E i \in DOMAIN call.keywords : Contains(Current, Placeholder(call.keywords[i]))

\* C32: a call of construct whose formatted text still holds the placeholder of
\* one of the keywords fails the assertion, and no prompt that holds such a
\* placeholder is returned
C32_NoPlaceholderLeft ==
    Constructed =>
        /\ LeftUnsubstituted => result.exc = "AssertionError"
        /\ result.exc = "none" =>
              \A i \in DOMAIN call.keywords :
                  ~Contains(result.value.user, Placeholder(call.keywords[i]))

\* C38: the kind the driver passes with its request for a local plan is one of
\* the kinds LocalPromptConstructor.construct has examples for, and a call
\* with any other kind raises
C38_DriverKindAccepted ==
    (Constructed /\ call.fn = "LocalPromptConstructor.construct") =>
        /\ call.prompt_type = DriverLocalPlanKind => call.prompt_type \in LocalPromptKinds
        /\ call.prompt_type \notin LocalPromptKinds => result.exc # "none"

----------------------------------------------------------------------------
(* early_stop as a function of its arguments *)

LastKNone(k) == NumActs >= k /\ \A a \in Last(k) : a.action_type = "NONE"

\* the test of a repetition rule succeeds on the history
RepetitionHolds ==
    /\ NumActs >= 1
    /\ \/ LastAct.action_type # "TYPE" /\ LastKRepeat(thresholds.repeating_action)
       \/ LastAct.action_type = "TYPE" /\ CountEquivalent >= thresholds.repeating_action

\* The statement of C36 for the parse-failure thresholds k >= kmin: a history
\* at max_steps whose last k actions are "none" is reported as "Reach max
\* steps"; below max_steps, a history whose last k actions are "none" and on
\* which a repetition test succeeds too is reported as a parsing failure.
RuleOrder(kmin) ==
    LET k == thresholds.parsing_failure
    IN  (pc = "es_done" /\ k >= kmin /\ LastKNone(k)) =>
            /\ ~StepsBelowMax => Returned(TRUE, "Reach max steps ", max_steps)
            /\ (StepsBelowMax /\ RepetitionHolds)
                  => Returned(TRUE, "Failed to parse actions for ", k)

C37_ShortHistoryNeverStops ==
    (/\ pc = "es_done"
     /\ max_steps >= 1
     /\ thresholds.parsing_failure >= 1
     /\ thresholds.repeating_action >= 1) =>
        /\ NumActs = 0 => Returned(FALSE, "", 0)
        /\ (StepsBelowMax /\ NumActs < thresholds.parsing_failure)
              => stop_info.msg # "Failed to parse actions for "
        /\ (StepsBelowMax /\ NumActs < thresholds.repeating_action)
              => stop_info.msg # "Same action for "

\* one "none" action under thresholds of 2: shorter than both, not reported
C37_Witness ==
    /\ Returned(FALSE, "", 0)
    /\ NumActs = 1
    /\ LastAct.action_type = "NONE"
    /\ thresholds = [parsing_failure |-> 2, repeating_action |-> 2]
    /\ max_steps = 2

----------------------------------------------------------------------------
(* next_action under an action set it does not know *)

SupportedActionSets == {"id_accessibility_tree", "playwright"}

\* C39 as stated: under an action set other than the two supported ones,
\* next_action raises ValueError and returns no action.
C39_AsStated ==
    (Called("next_action") /\ call.tag \notin SupportedActionSets)
        => result.exc = "ValueError"

\* C39, amended: under an action set other than the two supported ones,
\* next_action raises ValueError, and returns no action, when the description
\* holds a delimited action; when it holds none, the ActionParsingError of the
\* extraction comes first and the none action is returned.  No other
\* exception than ValueError leaves next_action.
C39_UnknownActionSetRaises ==
    Called("next_action") =>
        /\ result.exc \in {"none", "ValueError"}
        /\ call.tag \notin SupportedActionSets =>
              IF HasSplitterPair(call.text)
              THEN result.exc = "ValueError"
              ELSE result.exc = "none" /\ IsNoneAction(result.value)

\* a well-formed action under the action set "html"
C39_Witness ==
    /\ Called("next_action")
    /\ call.tag = "html"
    /\ call.text = <<action_splitter, "click [1]", action_splitter>>
    /\ result.exc = "ValueError"

====
